---- MODULE Spec2Model ----
(***************************************************************************)
(* Model of the coordinator (src/coordinator.py) and of the compute node   *)
(* (src/compute_node.py) of the distributed training service.              *)
(*                                                                         *)
(* Tensors are finite sequences of integers; the shape of a tensor is its  *)
(* length.  The accumulators hold integer sums.  average() returns the sum *)
(* together with the divisor it was scaled by (an exact rational), and the *)
(* model weights are kept in units of 1/WeightDen so that adding an        *)
(* averaged gradient is exact.                                             *)
(***************************************************************************)
EXTENDS Integers, Sequences, FiniteSets, TLC

\* ------------------------------------------------------------------ bounds
\* length of the work queue of a round (11 files in the source)
NumPartitions == 2
\* length of the work queue in the end-to-end balancing scenario
E2EPartitions == 4
\* largest value of the `rounds` argument of train
MaxRounds == 2
\* random.random() is modelled as k / ProbScale for k in 0 .. ProbScale-1
ProbScale == 4
\* largest job count passed to average when an accumulator is used on its own
MaxJobs == 2
\* an accumulator used on its own is updated while its first entry is below
MaxSum == 3
\* largest count the load tracker used on its own is incremented to
MaxLoad == 3

\* ------------------------------------------------------------ configuration
\* contents of compute_nodes.txt as loaded by _load_compute_nodes: an ordered
\* list, possibly empty (unreadable file) and possibly with a repeated line
Registries == { <<>>, <<"B", "A">> }
E2ERegistry == << "A", "B", "C" >>

RANDOM == 1
LEAST_LOADED == 2
Policies == {RANDOM, LEAST_LOADED}

\* shapes of the model tensors V and W
ShapeV == 2
ShapeW == 1

\* tensors a remote trainModel may return as dV and dW: one of the
\* accumulator's shape and one of another shape
GoodDeltasV == { [k \in 1 .. ShapeV |-> k] }
GoodDeltasW == { [k \in 1 .. ShapeW |-> 1] }
DeltasV == GoodDeltasV \cup { [k \in 1 .. ShapeV + 1 |-> 3] }
DeltasW == GoodDeltasW \cup { [k \in 1 .. ShapeW + 1 |-> 1] }

VARIABLES
  scheduling_policy,   \* CoordinatorHandler.scheduling_policy
  compute_nodes,       \* CoordinatorHandler.compute_nodes (ordered list)
  node_load,           \* CoordinatorHandler.node_load
  mlp_V, mlp_W,        \* weights held by CoordinatorHandler.mlp_model
  gradient_V,          \* shared_gradient_V.gradient
  gradient_W,          \* shared_gradient_W.gradient
  work_queue,          \* number of entries of work_queue
  pc,                  \* position of the thread running train
  rounds, r,           \* argument `rounds` and loop variable r of train
  V, W,                \* weight snapshot of the round (locals of train)
  i,                   \* next index of the dispatch loop, 1-based
  avg_gradient_V, avg_gradient_W,
  val_error,           \* local val_error of train
  result,              \* what the last train call returned or raised
  threads,             \* the dispatch tasks of the round
  load_before,         \* history: node_load when the round started
  stale,               \* history: a selection of this round read node_load
                       \* while an earlier task of the round was not in flight
  load_probability,    \* ComputeNodeHandler.load_probability, times ProbScale
  samples,             \* the values random.random() gave the last request
  gate,                \* result of the last _should_accept_task
  init_ok,             \* result of the last init_training_model
  injected,            \* whether the last request slept in _inject_load
  answer,              \* status the last initializeTraining returned
  served,              \* the request the node served last
  locks,               \* holder of self.lock and of the two accumulator locks
  op                   \* history: the last operation a caller applied to an
                       \* accumulator or to the load tracker on its own

coordVars == << scheduling_policy, compute_nodes, node_load, mlp_V, mlp_W,
                gradient_V, gradient_W, work_queue, pc, rounds, r, V, W, i,
                avg_gradient_V, avg_gradient_W, val_error, result,
                threads, load_before, stale >>
nodeVars == << load_probability, samples, gate, init_ok, injected, answer,
               served >>
vars == << coordVars, nodeVars, locks, op >>

\* ----------------------------------------------------------------- tensors
Shape(t) == Len(t)
Zeros(n) == [k \in 1 .. n |-> 0]

Max(a, b) == IF a >= b THEN a ELSE b

\* ML.sum_matricies: elementwise sum of two tensors of one shape
sum_matricies(A, B) == [k \in 1 .. Len(A) |-> A[k] + B[k]]

\* whether sum_matricies(A, B) returns rather than raises
SumDefined(A, B) == Shape(A) = Shape(B)

\* ML.scale_matricies(M, 1/d): the tensor M/d, kept as numerator and divisor
scale_matricies(M, d) == [num |-> M, den |-> d]

\* update without mutual exclusion: the sum read before a concurrent update is
\* overwritten, so only the last contribution is kept
updateLost(gradient, local_gradient) ==
  IF SumDefined(gradient, local_gradient)
    THEN [raised |-> FALSE, gradient |-> local_gradient]
    ELSE [raised |-> TRUE, gradient |-> gradient]

\* update adding entry by entry in place, failing only after the entries the
\* two tensors share have been added
updateInPlace(gradient, local_gradient) ==
  IF SumDefined(gradient, local_gradient)
    THEN [raised |-> FALSE, gradient |-> sum_matricies(gradient, local_gradient)]
    ELSE [raised |-> TRUE,
          gradient |-> [k \in 1 .. Len(gradient) |->
                          gradient[k] + (IF k <= Len(local_gradient)
                                           THEN local_gradient[k] ELSE 0)]]

\* SharedGradient.update: under the lock the accumulator is assigned the sum
\* once sum_matricies has returned; when it raises the lock is released, the
\* accumulator keeps its value and the exception reaches the caller
update(gradient, local_gradient) ==
  IF SumDefined(gradient, local_gradient)
    THEN [raised |-> FALSE, gradient |-> sum_matricies(gradient, local_gradient)]
    ELSE [raised |-> TRUE, gradient |-> gradient]

\* average dividing by the job count itself, with no guard for zero
averageUnguarded(gradient, num_jobs) == scale_matricies(gradient, num_jobs)

\* SharedGradient.average
average(gradient, num_jobs) == scale_matricies(gradient, Max(num_jobs, 1))

\* SharedGradient.reset
reset(gradient) == Zeros(Shape(gradient))

\* the weights are in units of 1/WeightDen
WeightDen == Max(work_queue, 1)

\* mlp.update_weights: weights += averaged gradient
update_weights(weights, avg) ==
  [k \in 1 .. Len(weights) |-> weights[k] + avg.num[k] * (WeightDen \div avg.den)]

\* mlp.validate: the error metric of the model holding these weights
validate(v, w) == << "error of", v, w >>

\* val_error before the first round assigns it
Unbound == << >>

\* outcomes of a train call: nothing yet, a returned value, a raised error
NoResult == [kind |-> "none", value |-> << >>]
Returned(x) == [kind |-> "returned", value |-> x]
Raised(e) == [kind |-> "raised", value |-> << e >>]

\* the sentinel train returns when the model cannot be set up (-1)
SetupFailed == << "setup failed" >>

\* mlp.init_training_random: the initial weights, in units of 1/WeightDen
InitialV == Zeros(ShapeV)
InitialW == Zeros(ShapeW)

\* ---------------------------------------------------------- load tracking
\* keys of the dict {node: 0 for node in compute_nodes}, in insertion order
RECURSIVE DictKeys(_)
DictKeys(s) ==
  IF s = << >> THEN << >>
  ELSE LET p == DictKeys(SubSeq(s, 1, Len(s) - 1))
           x == s[Len(s)]
       IN IF \E k \in 1 .. Len(p) : p[k] = x THEN p ELSE Append(p, x)

Range(s) == { s[k] : k \in 1 .. Len(s) }

\* the first key of the dict, whatever the counts
LeastLoadedFirstKey(load, keys) == keys[1]

\* a smallest count, but the last key holding it
LeastLoadedLastTie(load, keys) ==
  keys[CHOOSE k \in 1 .. Len(keys) :
         /\ \A j \in 1 .. Len(keys) : load[keys[j]] >= load[keys[k]]
         /\ \A j \in k + 1 .. Len(keys) : load[keys[j]] > load[keys[k]]]

\* min(self.node_load, key=self.node_load.get): the first key, in dict order,
\* holding the smallest count
LeastLoaded(load, keys) ==
  keys[CHOOSE k \in 1 .. Len(keys) :
         /\ \A j \in 1 .. Len(keys) : load[keys[j]] >= load[keys[k]]
         /\ \A j \in 1 .. k - 1 : load[keys[j]] > load[keys[k]]]

\* _select_compute_node raises when the collection it looks into is empty:
\* random.choice([]) raises IndexError, min({}) raises ValueError
SelectRaises ==
  IF scheduling_policy = RANDOM THEN compute_nodes = << >>
  ELSE DOMAIN node_load = {}

SelectError ==
  IF scheduling_policy = RANDOM THEN "IndexError" ELSE "ValueError"

\* _select_compute_node: the nodes one call may return
select_compute_node ==
  IF scheduling_policy = RANDOM THEN Range(compute_nodes)
  ELSE { LeastLoaded(node_load, DictKeys(compute_nodes)) }

\* an increment whose write is lost
incrementLost(load, node) == load

\* _increment_node_load
increment_node_load(load, node) == [load EXCEPT ![node] = @ + 1]

\* a decrement with no floor at zero
decrementNoFloor(load, node) == [load EXCEPT ![node] = @ - 1]

\* _decrement_node_load
decrement_node_load(load, node) == [load EXCEPT ![node] = Max(0, @ - 1)]

\* ------------------------------------------------------------------- locks
\* the three threading.Lock objects: self.lock of the coordinator ("load")
\* and the lock of each SharedGradient ("V", "W")
LockNames == {"load", "V", "W"}

\* who holds a lock: nobody, the thread running train, or a dispatch task
Free == << >>
Main == << "main" >>
Task(t) == << "task", t >>

NoLocks == [l \in LockNames |-> Free]

\* a with block left without releasing its lock
releaseNever(held, l) == held

\* entering and leaving a `with lock:` block
acquire(held, l, th) == [held EXCEPT ![l] = th]
release(held, l) == [held EXCEPT ![l] = Free]

\* no operation applied yet
NoOp == [name |-> "none", target |-> "", n |-> 0, sum |-> << >>]

\* ------------------------------------------------------------------- tasks
Partitions == 1 .. work_queue

\* a thread that has not been created in this round
NoThread == [pc |-> "unborn", node |-> "", status |-> "none", trained |-> FALSE,
             dV |-> << >>, dW |-> << >>, failed |-> FALSE]

\* positions of thread_func between _increment_node_load and
\* _decrement_node_load
InFlight == {"initialize", "train", "update_V", "update_W", "finally"}

\* the release placed after the try block instead of in a finally clause
OnExceptionNoRelease(task) == [task EXCEPT !.pc = "done", !.failed = TRUE]

\* the failure handled by waiting for the node, with no way out
OnExceptionHangs(task) == [task EXCEPT !.pc = "waiting", !.failed = TRUE]

\* the failure handled by calling the node again
OnExceptionRetry(task) == [task EXCEPT !.pc = "initialize", !.failed = TRUE]

\* the except clause followed by the finally clause of thread_func
OnException(task) == [task EXCEPT !.pc = "finally", !.failed = TRUE]

\* a LEAST_LOADED selection reads node_load while a thread started earlier in
\* the round has not incremented it yet or has already decremented it
StaleRead ==
  /\ scheduling_policy = LEAST_LOADED
  /\ \E u \in 1 .. i - 1 : threads[u].pc \notin InFlight

\* the barrier passed without waiting for the threads
JoinReadyNoWait(t) == threads[t].pc # "unborn"

\* t.join() returns once the thread has terminated
JoinReady(t) == threads[t].pc = "done"

TypeOK ==
  /\ scheduling_policy \in Policies
  /\ compute_nodes \in Registries \cup {E2ERegistry}
  /\ DOMAIN node_load = Range(compute_nodes)
  /\ \A n \in DOMAIN node_load : node_load[n] \in Int
  /\ pc \in {"idle", "round", "dispatch", "average_V", "average_W",
             "update", "validate", "returned", "raised"}
  /\ DOMAIN threads = Partitions

\* --------------------------------------------------------------- initial
\* ComputeNodeHandler.__init__ with load probability p / ProbScale
NodeInit(p) ==
  /\ load_probability = p
  /\ samples = << >>
  /\ gate = FALSE
  /\ init_ok = FALSE
  /\ injected = FALSE
  /\ answer = "none"
  /\ served = "none"

NodeIdle == NodeInit(0)

\* CoordinatorHandler.__init__ for one registry, policy and work queue
CoordInit(policy, registry, nparts) ==
  /\ scheduling_policy = policy
  /\ compute_nodes = registry
  /\ node_load = [n \in Range(registry) |-> 0]
  /\ mlp_V = << >>
  /\ mlp_W = << >>
  /\ gradient_V = << >>
  /\ gradient_W = << >>
  /\ work_queue = nparts
  /\ pc = "idle"
  /\ rounds = 0
  /\ r = 0
  /\ V = << >>
  /\ W = << >>
  /\ i = 1
  /\ avg_gradient_V = scale_matricies(<< >>, 1)
  /\ avg_gradient_W = scale_matricies(<< >>, 1)
  /\ val_error = Unbound
  /\ result = NoResult
  /\ threads = [t \in 1 .. nparts |-> NoThread]
  /\ load_before = [n \in Range(registry) |-> 0]
  /\ stale = FALSE
  /\ locks = NoLocks
  /\ op = NoOp

Init ==
  /\ \E policy \in Policies, registry \in Registries :
       CoordInit(policy, registry, NumPartitions)
  /\ NodeIdle

\* ------------------------------------------------------------------ train
\* train, lines 126-135: set up the model and the accumulators
TrainCall(rnds, success) ==
  /\ pc \in {"idle", "returned", "raised"}
  /\ rounds' = rnds
  /\ val_error' = Unbound
  /\ IF ~success
       THEN /\ pc' = "returned"
            /\ result' = Returned(SetupFailed)
            /\ UNCHANGED << mlp_V, mlp_W, V, W, gradient_V, gradient_W, r >>
       ELSE /\ mlp_V' = InitialV
            /\ mlp_W' = InitialW
            /\ V' = InitialV
            /\ W' = InitialW
            /\ gradient_V' = Zeros(Shape(InitialV))
            /\ gradient_W' = Zeros(Shape(InitialW))
            /\ r' = 0
            /\ pc' = "round"
            /\ result' = NoResult
  /\ UNCHANGED << scheduling_policy, compute_nodes, node_load, work_queue, i,
                  avg_gradient_V, avg_gradient_W, threads, load_before,
                  stale, nodeVars, op, locks >>

\* train, lines 137-148: the head of the loop and the start of a round
RoundStart ==
  /\ pc = "round"
  /\ r < rounds
  /\ V' = mlp_V
  /\ W' = mlp_W
  /\ gradient_V' = reset(gradient_V)
  /\ gradient_W' = reset(gradient_W)
  /\ threads' = [t \in Partitions |-> NoThread]
  /\ i' = 1
  /\ load_before' = node_load
  /\ stale' = FALSE
  /\ pc' = "dispatch"
  /\ UNCHANGED << scheduling_policy, compute_nodes, node_load, mlp_V, mlp_W,
                  work_queue, rounds, r, avg_gradient_V, avg_gradient_W,
                  val_error, result, nodeVars, op, locks >>

\* train, line 185: return val_error, unbound when no round ran
Return ==
  /\ pc = "round"
  /\ r >= rounds
  /\ IF val_error = Unbound
       THEN pc' = "raised" /\ result' = Raised("UnboundLocalError")
       ELSE pc' = "returned" /\ result' = Returned(val_error)
  /\ UNCHANGED << scheduling_policy, compute_nodes, node_load, mlp_V, mlp_W,
                  gradient_V, gradient_W, work_queue, rounds, r, V, W, i,
                  avg_gradient_V, avg_gradient_W, val_error, threads,
                  load_before, stale, nodeVars, op, locks >>

\* the selection reserving the node: the count of the selected node is
\* incremented in the same step that selects it
DispatchReserving ==
  /\ pc = "dispatch"
  /\ i <= work_queue
  /\ IF SelectRaises
       THEN /\ pc' = "raised"
            /\ result' = Raised(SelectError)
            /\ UNCHANGED << threads, i, stale, node_load >>
       ELSE /\ \E node \in select_compute_node :
                 /\ threads' = [threads EXCEPT ![i] = [NoThread EXCEPT
                                   !.pc = "start", !.node = node]]
                 /\ node_load' = increment_node_load(node_load, node)
            /\ i' = i + 1
            /\ stale' = (stale \/ StaleRead)
            /\ UNCHANGED << pc, result >>
  /\ UNCHANGED << scheduling_policy, compute_nodes, mlp_V, mlp_W, gradient_V,
                  gradient_W, work_queue, rounds, r, V, W, avg_gradient_V,
                  avg_gradient_W, val_error, load_before, nodeVars, op >>

\* train, lines 150-157: select a node for the next file and start its thread
DispatchBody ==
  /\ pc = "dispatch"
  /\ i <= work_queue
  /\ IF SelectRaises
       THEN /\ pc' = "raised"
            /\ result' = Raised(SelectError)
            /\ UNCHANGED << threads, i, stale >>
       ELSE /\ \E node \in select_compute_node :
                 threads' = [threads EXCEPT ![i] = [NoThread EXCEPT
                                !.pc = "start", !.node = node]]
            /\ i' = i + 1
            /\ stale' = (stale \/ StaleRead)
            /\ UNCHANGED << pc, result >>
  /\ UNCHANGED << scheduling_policy, compute_nodes, node_load, mlp_V, mlp_W,
                  gradient_V, gradient_W, work_queue, rounds, r, V, W, avg_gradient_V, avg_gradient_W, val_error, load_before,
                  nodeVars, op >>

Dispatch == DispatchBody /\ UNCHANGED locks

\* train, lines 159-160: the join barrier, passed once every thread of the
\* round has terminated
Join ==
  /\ pc = "dispatch"
  /\ i > work_queue
  /\ \A t \in Partitions : JoinReady(t)
  /\ pc' = "average_V"
  /\ UNCHANGED << scheduling_policy, compute_nodes, node_load, mlp_V, mlp_W,
                  gradient_V, gradient_W, work_queue, rounds, r, V, W, i,
                  avg_gradient_V, avg_gradient_W, val_error, result, threads,
                  load_before, stale, nodeVars, op, locks >>

\* the V accumulator averaged over the tasks that succeeded
AverageVByMerged ==
  /\ pc = "average_V"
  /\ avg_gradient_V' = average(gradient_V,
         Cardinality({ t \in Partitions :
                         threads[t].trained /\ ~threads[t].failed }))
  /\ pc' = "average_W"
  /\ UNCHANGED << scheduling_policy, compute_nodes, node_load, mlp_V, mlp_W,
                  gradient_V, gradient_W, work_queue, rounds, r, V, W, i,
                  avg_gradient_W, val_error, result, threads,
                  load_before, stale, nodeVars, op >>

\* train, line 162
AverageVBody ==
  /\ pc = "average_V"
  /\ avg_gradient_V' = average(gradient_V, work_queue)
  /\ pc' = "average_W"
  /\ UNCHANGED << scheduling_policy, compute_nodes, node_load, mlp_V, mlp_W,
                  gradient_V, gradient_W, work_queue, rounds, r, V, W, i,
                  avg_gradient_W, val_error, result, threads,
                  load_before, stale, nodeVars, op >>

AverageV == AverageVBody /\ UNCHANGED locks

\* train, line 163
AverageWBody ==
  /\ pc = "average_W"
  /\ avg_gradient_W' = average(gradient_W, work_queue)
  /\ pc' = "update"
  /\ UNCHANGED << scheduling_policy, compute_nodes, node_load, mlp_V, mlp_W,
                  gradient_V, gradient_W, work_queue, rounds, r, V, W, i,
                  avg_gradient_V, val_error, result, threads,
                  load_before, stale, nodeVars, op >>

AverageW == AverageWBody /\ UNCHANGED locks

\* train, lines 165-176: apply the averaged gradients when the shapes match
Update ==
  /\ pc = "update"
  /\ IF Shape(avg_gradient_W.num) = Shape(W) /\ Shape(avg_gradient_V.num) = Shape(V)
       THEN /\ mlp_V' = update_weights(mlp_V, avg_gradient_V)
            /\ mlp_W' = update_weights(mlp_W, avg_gradient_W)
       ELSE UNCHANGED << mlp_V, mlp_W >>
  /\ pc' = "validate"
  /\ UNCHANGED << scheduling_policy, compute_nodes, node_load, gradient_V,
                  gradient_W, work_queue, rounds, r, V, W, i, avg_gradient_V, avg_gradient_W, val_error, result, threads,
                  load_before, stale, nodeVars, op, locks >>

\* train, lines 179-180 and the step of the loop
Validate ==
  /\ pc = "validate"
  /\ val_error' = validate(mlp_V, mlp_W)
  /\ r' = r + 1
  /\ pc' = "round"
  /\ UNCHANGED << scheduling_policy, compute_nodes, node_load, mlp_V, mlp_W,
                  gradient_V, gradient_W, work_queue, rounds, V, W, i, avg_gradient_V, avg_gradient_W, result, threads, load_before,
                  stale, nodeVars, op, locks >>

\* ------------------------------------------------------------ thread_func
TaskUnchanged ==
  UNCHANGED << scheduling_policy, compute_nodes, mlp_V, mlp_W, work_queue, pc,
               rounds, r, V, W, i, avg_gradient_V, avg_gradient_W,
               val_error, result, load_before, stale, nodeVars, op >>

\* line 72
IncrementBody(t) ==
  /\ threads[t].pc = "start"
  /\ node_load' = increment_node_load(node_load, threads[t].node)
  /\ threads' = [threads EXCEPT ![t].pc = "initialize"]
  /\ UNCHANGED << gradient_V, gradient_W >>
  /\ TaskUnchanged

Increment(t) == IncrementBody(t) /\ UNCHANGED locks

\* the status returned by initializeTraining ignored
InitializeAnyStatus(t, st) ==
  /\ threads[t].pc = "initialize"
  /\ threads' = [threads EXCEPT ![t].status = st, ![t].pc = "train"]
  /\ UNCHANGED << node_load, gradient_V, gradient_W >>
  /\ TaskUnchanged
  /\ UNCHANGED locks

\* lines 75-84 and 95: the connection is opened and initializeTraining
\* returns st; unless st is ACCEPTED the connection is closed
Initialize(t, st) ==
  /\ threads[t].pc = "initialize"
  /\ threads' = [threads EXCEPT ![t].status = st,
                   ![t].pc = IF st = "ACCEPTED" THEN "train" ELSE "finally"]
  /\ UNCHANGED << node_load, gradient_V, gradient_W >>
  /\ TaskUnchanged
  /\ UNCHANGED locks

\* lines 86-90: trainModel returns the gradients dv and dw
Train(t, dv, dw) ==
  /\ threads[t].pc = "train"
  /\ threads' = [threads EXCEPT ![t].trained = TRUE, ![t].dV = dv,
                   ![t].dW = dw, ![t].pc = "update_V"]
  /\ UNCHANGED << node_load, gradient_V, gradient_W >>
  /\ TaskUnchanged
  /\ UNCHANGED locks

\* lines 75-86: the connection, initializeTraining or trainModel raises
RemoteFails(t) ==
  /\ threads[t].pc \in {"initialize", "train"}
  /\ threads' = [threads EXCEPT ![t] = OnException(@)]
  /\ UNCHANGED << node_load, gradient_V, gradient_W >>
  /\ TaskUnchanged
  /\ UNCHANGED locks

\* line 92
UpdateVBody(t) ==
  /\ threads[t].pc = "update_V"
  /\ LET u == update(gradient_V, threads[t].dV)
     IN /\ gradient_V' = u.gradient
        /\ threads' = [threads EXCEPT ![t] =
                         IF u.raised THEN OnException(@)
                         ELSE [@ EXCEPT !.pc = "update_W"]]
  /\ UNCHANGED << node_load, gradient_W >>
  /\ TaskUnchanged

UpdateV(t) == UpdateVBody(t) /\ UNCHANGED locks

\* lines 93-95: the second update, then the connection is closed
UpdateWBody(t) ==
  /\ threads[t].pc = "update_W"
  /\ LET u == update(gradient_W, threads[t].dW)
     IN /\ gradient_W' = u.gradient
        /\ threads' = [threads EXCEPT ![t] =
                         IF u.raised THEN OnException(@)
                         ELSE [@ EXCEPT !.pc = "finally"]]
  /\ UNCHANGED << node_load, gradient_V >>
  /\ TaskUnchanged

UpdateW(t) == UpdateWBody(t) /\ UNCHANGED locks

\* lines 100-101
DecrementBody(t) ==
  /\ threads[t].pc = "finally"
  /\ node_load' = decrement_node_load(node_load, threads[t].node)
  /\ threads' = [threads EXCEPT ![t].pc = "done"]
  /\ UNCHANGED << gradient_V, gradient_W >>
  /\ TaskUnchanged

Decrement(t) == DecrementBody(t) /\ UNCHANGED locks

Orchestrator ==
  \/ RoundStart
  \/ Return
  \/ Dispatch
  \/ Join
  \/ AverageV
  \/ AverageW
  \/ Update
  \/ Validate

Next ==
  \/ \E rnds \in 0 .. MaxRounds, success \in BOOLEAN : TrainCall(rnds, success)
  \/ Orchestrator
  \/ \E t \in Partitions :
       \/ Increment(t)
       \/ \E st \in {"ACCEPTED", "REJECTED"} : Initialize(t, st)
       \/ \E dv \in DeltasV, dw \in DeltasW : Train(t, dv, dw)
       \/ RemoteFails(t)
       \/ UpdateV(t)
       \/ UpdateW(t)
       \/ Decrement(t)

Spec == Init /\ [][Next]_vars

\* ------------------------------------------------------------ compute node
\* values of random.random(), in [0, 1), times ProbScale
Samples == 0 .. ProbScale - 1

\* values of load_probability, in [0, 1], times ProbScale
Probabilities == 0 .. ProbScale

\* the gate with a strict comparison
should_accept_task_strict(sample, p) == sample > p

\* _should_accept_task with random.random() giving sample
should_accept_task(sample, p) == sample >= p

\* _inject_load sleeps when random.random() gives sample
inject_load(sample, p) == sample < p

\* initializeTraining; s1 and s2 are what random.random() gives on its first
\* and second call, success what init_training_model returns
initializeTraining(s1, s2, success) ==
  /\ served' = "initializeTraining"
  /\ gate' = should_accept_task(s1, load_probability)
  /\ IF ~should_accept_task(s1, load_probability)
       THEN /\ answer' = "REJECTED"
            /\ samples' = << s1 >>
            /\ UNCHANGED << init_ok, injected >>
       ELSE /\ samples' = << s1, s2 >>
            /\ injected' = inject_load(s2, load_probability)
            /\ init_ok' = success
            /\ answer' = IF success THEN "ACCEPTED" ELSE "REJECTED"
  /\ UNCHANGED << load_probability, coordVars, locks, op >>

\* trainModel, called by the coordinator after an ACCEPTED answer
trainModel ==
  /\ served = "initializeTraining"
  /\ answer = "ACCEPTED"
  /\ served' = "trainModel"
  /\ UNCHANGED << load_probability, samples, gate, init_ok, injected, answer,
                  coordVars, locks, op >>

InitNode ==
  /\ CoordInit(RANDOM, << >>, 0)
  /\ \E p \in Probabilities : NodeInit(p)

NextNode ==
  \/ \E s1 \in Samples, s2 \in Samples, success \in BOOLEAN :
       initializeTraining(s1, s2, success)
  \/ trainModel

SpecNode == InitNode /\ [][NextNode]_vars

\* ------------------------------------------------- end-to-end, no failures
\* three nodes, LEAST_LOADED, every node accepts and every call returns
InitE2E ==
  /\ CoordInit(LEAST_LOADED, E2ERegistry, E2EPartitions)
  /\ NodeIdle

NextE2E ==
  \/ TrainCall(1, TRUE)
  \/ Orchestrator
  \/ \E t \in Partitions :
       \/ Increment(t)
       \/ Initialize(t, "ACCEPTED")
       \/ \E dv \in GoodDeltasV, dw \in GoodDeltasW : Train(t, dv, dw)
       \/ UpdateV(t)
       \/ UpdateW(t)
       \/ Decrement(t)

SpecE2E == InitE2E /\ [][NextE2E]_vars

\* ----------------------------------------------- SharedGradient on its own
\* a caller applying the operations of the two SharedGradient objects in any
\* order, with any job count
Accumulators == {"V", "W"}
AccShape(a) == IF a = "V" THEN ShapeV ELSE ShapeW
AccDeltas(a) == IF a = "V" THEN DeltasV ELSE DeltasW
AccGet(a) == IF a = "V" THEN gradient_V ELSE gradient_W
AccAvg(a) == IF a = "V" THEN avg_gradient_V ELSE avg_gradient_W

AccSet(a, g) ==
  IF a = "V" THEN gradient_V' = g /\ UNCHANGED gradient_W
  ELSE gradient_W' = g /\ UNCHANGED gradient_V

HarnessUnchanged ==
  UNCHANGED << scheduling_policy, compute_nodes, mlp_V, mlp_W, work_queue, pc,
               rounds, r, V, W, i, val_error, result, threads, load_before,
               stale, nodeVars, locks >>

\* SharedGradient.__init__(shape)
AccConstruct(a) ==
  /\ AccGet(a) = << >>
  /\ AccSet(a, Zeros(AccShape(a)))
  /\ op' = [name |-> "init", target |-> a, n |-> 0, sum |-> AccGet(a)]
  /\ UNCHANGED << node_load, avg_gradient_V, avg_gradient_W >>
  /\ HarnessUnchanged

\* SharedGradient.update(local_gradient)
AccUpdate(a, d) ==
  /\ AccGet(a) # << >>
  /\ AccGet(a)[1] < MaxSum
  /\ AccSet(a, update(AccGet(a), d).gradient)
  /\ op' = [name |-> "update", target |-> a, n |-> 0, sum |-> AccGet(a)]
  /\ UNCHANGED << node_load, avg_gradient_V, avg_gradient_W >>
  /\ HarnessUnchanged

\* SharedGradient.reset()
AccReset(a) ==
  /\ AccGet(a) # << >>
  /\ AccSet(a, reset(AccGet(a)))
  /\ op' = [name |-> "reset", target |-> a, n |-> 0, sum |-> AccGet(a)]
  /\ UNCHANGED << node_load, avg_gradient_V, avg_gradient_W >>
  /\ HarnessUnchanged

\* SharedGradient.average(num_jobs): the result is returned to the caller, the
\* accumulator is not assigned
AccAverage(a, num_jobs) ==
  /\ AccGet(a) # << >>
  /\ IF a = "V"
       THEN /\ avg_gradient_V' = average(gradient_V, num_jobs)
            /\ UNCHANGED avg_gradient_W
       ELSE /\ avg_gradient_W' = average(gradient_W, num_jobs)
            /\ UNCHANGED avg_gradient_V
  /\ op' = [name |-> "average", target |-> a, n |-> num_jobs, sum |-> AccGet(a)]
  /\ UNCHANGED << node_load, gradient_V, gradient_W >>
  /\ HarnessUnchanged

InitAccumulator ==
  /\ CoordInit(RANDOM, << >>, 0)
  /\ NodeIdle

NextAccumulator ==
  \E a \in Accumulators :
    \/ AccConstruct(a)
    \/ \E d \in AccDeltas(a) : AccUpdate(a, d)
    \/ AccReset(a)
    \/ \E num_jobs \in 0 .. MaxJobs : AccAverage(a, num_jobs)

SpecAccumulator == InitAccumulator /\ [][NextAccumulator]_vars

\* ------------------------------------------------ load tracker on its own
\* a caller applying _increment_node_load and _decrement_node_load to the
\* registered nodes in any order, matched or not
LoadIncrement(node) ==
  /\ node \in DOMAIN node_load
  /\ node_load[node] < MaxLoad
  /\ node_load' = increment_node_load(node_load, node)
  /\ op' = [name |-> "increment", target |-> node, n |-> node_load[node],
            sum |-> << >>]
  /\ UNCHANGED << gradient_V, gradient_W, avg_gradient_V, avg_gradient_W >>
  /\ HarnessUnchanged

LoadDecrement(node) ==
  /\ node \in DOMAIN node_load
  /\ node_load' = decrement_node_load(node_load, node)
  /\ op' = [name |-> "decrement", target |-> node, n |-> node_load[node],
            sum |-> << >>]
  /\ UNCHANGED << gradient_V, gradient_W, avg_gradient_V, avg_gradient_W >>
  /\ HarnessUnchanged

InitLoadTracker ==
  /\ \E registry \in Registries \cup {E2ERegistry} :
       CoordInit(LEAST_LOADED, registry, 0)
  /\ NodeIdle

NextLoadTracker ==
  \E node \in Range(E2ERegistry) :
    \/ LoadIncrement(node)
    \/ LoadDecrement(node)

SpecLoadTracker == InitLoadTracker /\ [][NextLoadTracker]_vars

\* ------------------------------------------------ the locks, step by step
\* the coordinator with every `with lock:` block in two steps: the lock is
\* taken, then the block runs and the lock is released.  The two resets of
\* RoundStart run while no dispatch task exists and stay one step.

\* the lock whose with block a dispatch task stands before, or is inside
TaskWants(t) ==
  CASE threads[t].pc \in {"start", "finally"} -> "load"
    [] threads[t].pc = "update_V" -> "V"
    [] threads[t].pc = "update_W" -> "W"
    [] OTHER -> "none"

\* the same for the thread running train; RANDOM selection takes no lock
MainWants ==
  CASE pc = "dispatch" /\ i <= work_queue
         /\ scheduling_policy = LEAST_LOADED -> "load"
    [] pc = "average_V" -> "V"
    [] pc = "average_W" -> "W"
    [] OTHER -> "none"

LockUnchanged == UNCHANGED << coordVars, nodeVars, op >>

AcquireTask(t) ==
  /\ TaskWants(t) # "none"
  /\ locks[TaskWants(t)] = Free
  /\ locks' = acquire(locks, TaskWants(t), Task(t))
  /\ LockUnchanged

AcquireMain ==
  /\ MainWants # "none"
  /\ locks[MainWants] = Free
  /\ locks' = acquire(locks, MainWants, Main)
  /\ LockUnchanged

LockedDispatch ==
  IF scheduling_policy = LEAST_LOADED
    THEN /\ locks["load"] = Main
         /\ DispatchBody
         /\ locks' = release(locks, "load")
    ELSE /\ DispatchBody
         /\ UNCHANGED locks

LockedAverageV ==
  /\ locks["V"] = Main
  /\ AverageVBody
  /\ locks' = release(locks, "V")

LockedAverageW ==
  /\ locks["W"] = Main
  /\ AverageWBody
  /\ locks' = release(locks, "W")

LockedIncrement(t) ==
  /\ locks["load"] = Task(t)
  /\ IncrementBody(t)
  /\ locks' = release(locks, "load")

LockedUpdateV(t) ==
  /\ locks["V"] = Task(t)
  /\ UpdateVBody(t)
  /\ locks' = release(locks, "V")

LockedUpdateW(t) ==
  /\ locks["W"] = Task(t)
  /\ UpdateWBody(t)
  /\ locks' = release(locks, "W")

LockedDecrement(t) ==
  /\ locks["load"] = Task(t)
  /\ DecrementBody(t)
  /\ locks' = release(locks, "load")

\* the steps of a train call once it has been made
LockStep ==
  \/ RoundStart
  \/ Return
  \/ AcquireMain
  \/ LockedDispatch
  \/ Join
  \/ LockedAverageV
  \/ LockedAverageW
  \/ Update
  \/ Validate
  \/ \E t \in Partitions :
       \/ AcquireTask(t)
       \/ LockedIncrement(t)
       \/ \E st \in {"ACCEPTED", "REJECTED"} : Initialize(t, st)
       \/ \E dv \in DeltasV, dw \in DeltasW : Train(t, dv, dw)
       \/ RemoteFails(t)
       \/ LockedUpdateV(t)
       \/ LockedUpdateW(t)
       \/ LockedDecrement(t)

NextLocks ==
  \/ \E rnds \in 0 .. MaxRounds, success \in BOOLEAN : TrainCall(rnds, success)
  \/ LockStep

SpecLocks == Init /\ [][NextLocks]_vars

\* ================================================================= claims
AfterBarrier == {"average_V", "average_W", "update", "validate"}
InRound == {"dispatch"} \cup AfterBarrier

AllTerminated == \A t \in Partitions : threads[t].pc = "done"

\* tasks of the round whose initialize was accepted and whose train returned
TrainReturned ==
  { t \in Partitions : threads[t].status = "ACCEPTED" /\ threads[t].trained }

\* tasks whose dV, and whose dV and dW, have the accumulators' shapes
WellShapedV == { t \in TrainReturned : Shape(threads[t].dV) = Shape(gradient_V) }
WellShapedW == { t \in WellShapedV : Shape(threads[t].dW) = Shape(gradient_W) }

\* tasks that were rejected or raised an exception, and the others
Failing ==
  { t \in Partitions : threads[t].status # "ACCEPTED" \/ threads[t].failed }
NonFailing == Partitions \ Failing

Delta(t, which) == IF which = "V" THEN threads[t].dV ELSE threads[t].dW

RECURSIVE SumAt(_, _, _)
SumAt(T, k, which) ==
  IF T = {} THEN 0
  ELSE LET t == CHOOSE x \in T : TRUE
           d == Delta(t, which)
       IN (IF k <= Len(d) THEN d[k] ELSE 0) + SumAt(T \ {t}, k, which)

\* the sum of the deltas of the tasks T over the n entries of an accumulator
DeltaSum(T, n, which) == [k \in 1 .. n |-> SumAt(T, k, which)]

\* number of threads of the round started on node n
Assigned(n) ==
  Cardinality({ t \in Partitions :
                  threads[t].pc # "unborn" /\ threads[t].node = n })

\* the numbers of tasks assigned to any two nodes differ by at most 1
Balanced ==
  \A a \in Range(compute_nodes), b \in Range(compute_nodes) :
    Assigned(a) - Assigned(b) <= 1

AllDispatched == pc \in InRound /\ i > work_queue

\* C1: in every round, whatever the outcome of each task, once all tasks of
\* the round are joined every node's tracked count equals its count before
\* the round started.
C1_LoadRestored ==
  pc \in AfterBarrier => node_load = load_before

\* a round past its barrier in which one task raised and another succeeded
C1_Witness ==
  /\ pc = "average_V"
  /\ \E t \in Partitions : threads[t].failed
  /\ \E t \in Partitions : ~threads[t].failed /\ threads[t].trained
  /\ node_load = load_before

\* C2: average, the weight update and the validation happen in that order
\* and only after every task of the round has terminated; while tasks may run
\* the weights are those of the snapshot.
C2_BarrierBeforeAggregation ==
  /\ pc \in AfterBarrier => AllTerminated
  /\ pc \in {"dispatch", "average_V", "average_W", "update"} =>
       mlp_V = V /\ mlp_W = W
  /\ pc \in {"average_W", "update", "validate"} =>
       avg_gradient_V = average(gradient_V, work_queue)
  /\ pc \in {"update", "validate"} =>
       avg_gradient_W = average(gradient_W, work_queue)
  /\ pc = "validate" =>
       /\ mlp_V = update_weights(V, avg_gradient_V)
       /\ mlp_W = update_weights(W, avg_gradient_W)
  /\ (pc = "round" /\ r > 0) => val_error = validate(mlp_V, mlp_W)

\* the weights were changed by the update of a round whose tasks all ended
C2_Witness ==
  /\ pc = "validate"
  /\ mlp_V # V
  /\ AllTerminated
  /\ TrainReturned # {}

\* C3 as stated: when average is invoked each accumulator holds the sum of
\* the deltas of exactly the tasks whose initialize was accepted and whose
\* train call returned.
C3_SumOfReturned ==
  pc \in {"average_V", "average_W"} =>
    /\ gradient_V = DeltaSum(TrainReturned, Shape(V), "V")
    /\ gradient_W = DeltaSum(TrainReturned, Shape(W), "W")

\* C3 amended: when average is invoked the V accumulator holds the sum of the
\* dV of exactly the tasks of the round whose initialize was accepted, whose
\* train returned and whose dV has the accumulator's shape, and the W
\* accumulator the sum of the dW of those among them whose dW has its shape;
\* nothing of an earlier round is left and no update is lost, in every
\* interleaving.
C3_SumOfMerged ==
  pc \in {"average_V", "average_W"} =>
    /\ gradient_V = DeltaSum(WellShapedV, Shape(V), "V")
    /\ gradient_W = DeltaSum(WellShapedW, Shape(W), "W")

\* the second round of a call, with two contributions merged
C3_Witness ==
  /\ pc = "average_V"
  /\ r = 1
  /\ mlp_V # InitialV
  /\ Cardinality(WellShapedW) >= 2
  /\ gradient_V = DeltaSum(WellShapedV, Shape(V), "V")

\* the steps of a round: the orchestrator's and the tasks'
RoundStep ==
  \/ Orchestrator
  \/ \E t \in Partitions :
       \/ Increment(t)
       \/ \E st \in {"ACCEPTED", "REJECTED"} : Initialize(t, st)
       \/ \E dv \in DeltasV, dw \in DeltasW : Train(t, dv, dw)
       \/ RemoteFails(t)
       \/ UpdateV(t)
       \/ UpdateW(t)
       \/ Decrement(t)

\* C4: a per-task failure never fails the round: whatever tasks fail, the
\* round is never stuck and never raises, it reaches the barrier, the update
\* and the validation, and there the contributions of all non-failing tasks
\* are merged: what is missing belongs to failing tasks.
C4_FailuresIsolated ==
  /\ pc \in InRound => ENABLED RoundStep
  /\ pc = "raised" => compute_nodes = << >> \/ rounds = 0
  /\ pc \in AfterBarrier =>
       /\ \E S \in SUBSET Failing :
            gradient_V = DeltaSum(NonFailing \cup S, Shape(V), "V")
       /\ \E S \in SUBSET Failing :
            gradient_W = DeltaSum(NonFailing \cup S, Shape(W), "W")

\* a round that reached validation with one task failed and one merged
C4_Witness ==
  /\ pc = "validate"
  /\ \E t \in Partitions : threads[t].failed
  /\ NonFailing # {}
  /\ mlp_V = update_weights(V, average(DeltaSum(NonFailing, Shape(V), "V"),
                                       work_queue))

\* C5: a round in which every task is rejected or fails leaves the weights
\* equal to those at the start of the round, and its validation error is
\* that of the unmodified model.
C5_AllFailNoChange ==
  /\ (pc = "validate" /\ Failing = Partitions) => mlp_V = V /\ mlp_W = W
  /\ (pc = "round" /\ r > 0 /\ Failing = Partitions) =>
       val_error = validate(V, W)

\* C6 as stated: under LEAST_LOADED with no failures the numbers of tasks
\* assigned to the nodes in one round differ by at most 1 in every execution.
C6_BalancedAlways ==
  (AllDispatched /\ scheduling_policy = LEAST_LOADED) => Balanced

\* C6 amended: the numbers differ by at most 1 in the executions in which
\* every selection reads the counts while all tasks started earlier in the
\* round are in flight (incremented, not yet decremented).
C6_BalancedWhenInFlight ==
  (AllDispatched /\ scheduling_policy = LEAST_LOADED /\ ~stale) => Balanced

\* all tasks dispatched from fresh counts, every node used, one node twice
C6_Witness ==
  /\ AllDispatched
  /\ scheduling_policy = LEAST_LOADED
  /\ ~stale
  /\ Len(compute_nodes) = 3
  /\ work_queue > Len(compute_nodes)
  /\ \A n \in Range(compute_nodes) : Assigned(n) >= 1
  /\ \E n \in Range(compute_nodes) : Assigned(n) >= 2

\* C7: under LEAST_LOADED every selection returns a registered node whose
\* count, at the moment of selection, is the minimum over all nodes, and
\* among the nodes holding the minimum the earliest of the registry; counts
\* {A:3, B:1, C:2} select B.
C7_LeastLoadedSelection ==
  [][ (pc = "dispatch" /\ i' = i + 1 /\ scheduling_policy = LEAST_LOADED) =>
        /\ \E k \in 1 .. Len(compute_nodes) :
             /\ compute_nodes[k] = threads'[i].node
             /\ \A j \in 1 .. Len(compute_nodes) :
                  node_load[compute_nodes[j]] >= node_load[compute_nodes[k]]
             /\ \A j \in 1 .. k - 1 :
                  node_load[compute_nodes[j]] > node_load[compute_nodes[k]]
        /\ LeastLoaded([n \in {"A", "B", "C"} |->
                          IF n = "A" THEN 3 ELSE IF n = "B" THEN 1 ELSE 2],
                       << "A", "B", "C" >>) = "B" ]_vars

\* the second selection of a round finds the first node of the registry
\* loaded and returns the second
C7_Witness ==
  /\ scheduling_policy = LEAST_LOADED
  /\ pc = "dispatch"
  /\ i = 3
  /\ compute_nodes = << "B", "A" >>
  /\ node_load["B"] = 1 /\ node_load["A"] = 0
  /\ threads[1].node = "B" /\ threads[2].node = "A"
  /\ threads[2].pc = "start"

\* C8 as stated: with load probability 0 every initializeTraining request is
\* answered ACCEPTED, with probability 1 every request is answered REJECTED.
C8_GateDecidesAnswer ==
  served = "initializeTraining" =>
    /\ load_probability = 0 => answer = "ACCEPTED"
    /\ load_probability = ProbScale => answer = "REJECTED"

\* C8 amended: with probability 0 the gate admits every request, whatever the
\* sample, and the answer is ACCEPTED exactly when init_training_model
\* succeeds; with probability 1 the gate admits none and every answer is
\* REJECTED.
C8_GateAtExtremes ==
  served = "initializeTraining" =>
    /\ load_probability = 0 =>
         gate /\ (answer = "ACCEPTED" <=> init_ok)
    /\ load_probability = ProbScale => ~gate /\ answer = "REJECTED"

\* probability 0 and the smallest sample: admitted and accepted
C8_Witness ==
  /\ served = "initializeTraining"
  /\ load_probability = 0
  /\ samples[1] = 0
  /\ gate
  /\ answer = "ACCEPTED"

\* C9: a delta whose shape differs from the accumulator's is rejected by
\* update: the accumulator keeps its sum, the contribution is dropped (the
\* task goes to its release without merging anything more) and the round
\* goes on.
C9_WrongShapeDropped ==
  [][ \A t \in Partitions :
        /\ ( /\ threads[t].pc = "update_V"
             /\ threads'[t].pc # "update_V"
             /\ Shape(threads[t].dV) # Shape(gradient_V) ) =>
               /\ gradient_V' = gradient_V
               /\ gradient_W' = gradient_W
               /\ threads'[t].pc = "finally"
               /\ pc' = pc
        /\ ( /\ threads[t].pc = "update_W"
             /\ threads'[t].pc # "update_W"
             /\ Shape(threads[t].dW) # Shape(gradient_W) ) =>
               /\ gradient_W' = gradient_W
               /\ gradient_V' = gradient_V
               /\ threads'[t].pc = "finally"
               /\ pc' = pc ]_vars

\* a round that reached validation after a wrong-shaped dV was fed to update
\* while the accumulator held the sum of another task, which it still holds
C9_Witness ==
  /\ pc = "validate"
  /\ \E t \in TrainReturned, u \in WellShapedW :
       /\ Shape(threads[t].dV) # Shape(gradient_V)
       /\ threads[t].failed
       /\ gradient_V = threads[u].dV

\* C10: when the registry is empty at scheduling time, selection signals an
\* explicit NoAvailableNode error.
C10_NoAvailableNode ==
  (pc = "raised" /\ compute_nodes = << >> /\ r < rounds) =>
    result = Raised("NoAvailableNode")

\* C11: average(n) returns the accumulated sum with the divisor max(n, 1),
\* which is at least 1 also for n = 0, and leaves the accumulated sum as it
\* was; reset leaves the all-zero tensor of the accumulator's shape, and
\* average(0) of it is that all-zero tensor
C11_AverageGuarded ==
  /\ op.name = "reset" =>
       AccGet(op.target) = Zeros(AccShape(op.target))
  /\ op.name = "average" =>
       /\ AccGet(op.target) = op.sum
       /\ AccAvg(op.target).num = op.sum
       /\ AccAvg(op.target).den >= 1
       /\ AccAvg(op.target).den = (IF op.n = 0 THEN 1 ELSE op.n)
       /\ (op.n = 0 /\ op.sum = Zeros(AccShape(op.target))) =>
            AccAvg(op.target) = [num |-> Zeros(AccShape(op.target)), den |-> 1]

\* average(0) was applied to the V accumulator right after it held only zeros
C11_Witness ==
  /\ op = [name |-> "average", target |-> "V", n |-> 0, sum |-> Zeros(ShapeV)]
  /\ avg_gradient_V = [num |-> Zeros(ShapeV), den |-> 1]
  /\ gradient_V = Zeros(ShapeV)
  /\ gradient_W # Zeros(ShapeW)

\* C12: every tracked count is a non-negative integer, whatever sequence of
\* increments and decrements is applied, and a decrement applied to a count
\* of 0 leaves it at 0
C12_CountsNonNegative ==
  /\ \A n \in DOMAIN node_load : node_load[n] \in Nat
  /\ (op.name = "decrement" /\ op.n = 0) => node_load[op.target] = 0
  /\ (op.name = "decrement" /\ op.n > 0) => node_load[op.target] = op.n - 1

\* a decrement has just been applied to a node whose count was 0, while
\* another node holds a positive count
C12_Witness ==
  /\ op.name = "decrement"
  /\ op.n = 0
  /\ node_load[op.target] = 0
  /\ \E n \in DOMAIN node_load : node_load[n] > 0

\* the positions of thread_func in program order
ThreadOrder == << "unborn", "start", "initialize", "train", "update_V",
                 "update_W", "finally", "done" >>
Rank(p) == CHOOSE k \in 1 .. Len(ThreadOrder) : ThreadOrder[k] = p

\* the step that starts a round and discards the threads of the last one
NewRound == pc = "round" /\ pc' = "dispatch"

\* C13: within a round the thread of a partition is created once, by the
\* dispatch loop at that partition's index, keeps the node it was given, and
\* only moves forward through thread_func: it passes the initializeTraining
\* call and the trainModel call at most once each, and once it has terminated
\* (rejected, failed or merged) nothing of it changes until the next round;
\* a round that reaches its barrier has one such thread for every partition
C13_NoRetry ==
  [][ \/ NewRound
      \/ /\ i' \in {i, i + 1}
         /\ pc' \in AfterBarrier =>
              \A t \in Partitions : /\ threads'[t].pc = "done"
                                     /\ threads'[t].node \in Range(compute_nodes)
         /\ \A t \in Partitions :
              /\ threads'[t] # threads[t] =>
                   Rank(threads'[t].pc) > Rank(threads[t].pc)
              /\ threads[t].pc # "unborn" =>
                   threads'[t].node = threads[t].node
              /\ (threads[t].pc = "unborn" /\ threads'[t].pc # "unborn") =>
                   /\ t = i
                   /\ i' = i + 1
                   /\ threads'[t].pc = "start"
              /\ threads[t].pc = "done" => threads'[t] = threads[t]
    ]_vars

\* a round is past its barrier with one partition rejected and one failed,
\* both threads terminated and neither trained
C13_Witness ==
  /\ pc = "validate"
  /\ \E t \in Partitions, u \in Partitions :
       /\ threads[t].pc = "done" /\ threads[t].status = "REJECTED"
       /\ threads[u].pc = "done" /\ threads[u].failed
       /\ ~threads[t].trained /\ ~threads[u].trained

\* tasks of the round that have passed the update of V, and of V and W, with
\* a gradient of the accumulator's shape
MergedV ==
  { t \in Partitions : /\ threads[t].trained
                       /\ threads[t].pc \in {"update_W", "finally", "done"}
                       /\ Shape(threads[t].dV) = Shape(gradient_V) }
MergedW ==
  { t \in MergedV : /\ threads[t].pc \in {"finally", "done"}
                    /\ Shape(threads[t].dW) = Shape(gradient_W) }

\* C14: a thread is at or past its trainModel call only if its own
\* initializeTraining returned ACCEPTED; a thread whose initializeTraining
\* returned REJECTED or failed has issued no trainModel call, holds no
\* gradient, and the accumulators hold only gradients of accepted threads
C14_TrainAfterAccepted ==
  /\ \A t \in Partitions :
       /\ threads[t].pc \in {"train", "update_V", "update_W"} =>
            threads[t].status = "ACCEPTED"
       /\ threads[t].trained => threads[t].status = "ACCEPTED"
       /\ threads[t].status # "ACCEPTED" =>
            /\ ~threads[t].trained
            /\ threads[t].dV = << >>
            /\ threads[t].dW = << >>
            /\ t \notin MergedV
  /\ pc \in InRound =>
       /\ gradient_V = DeltaSum(MergedV, Shape(gradient_V), "V")
       /\ gradient_W = DeltaSum(MergedW, Shape(gradient_W), "W")

\* at the barrier one thread was rejected and one failed in initialize, both
\* without a trainModel call, while no gradient was merged
C14_Witness ==
  /\ pc \in AfterBarrier
  /\ \E t \in Partitions, u \in Partitions :
       /\ threads[t].status = "REJECTED" /\ ~threads[t].trained
       /\ threads[u].status = "none" /\ threads[u].failed
       /\ threads[u].pc = "done"
  /\ gradient_V = Zeros(ShapeV)
  /\ gradient_W = Zeros(ShapeW)

\* every thread that can take a step eventually takes one: the threads are
\* scheduled by the operating system and every remote call returns or fails
SpecFair == Init /\ [][Next]_vars /\ WF_vars(Next)

\* on a registry with at least one node, a train call with rounds >= 1 whose
\* setup succeeded returns the validation error after `rounds` rounds
TerminatesWithNodes ==
  (pc = "round" /\ r = 0 /\ rounds >= 1 /\ compute_nodes # << >>)
    ~> (pc = "returned" /\ r = rounds
          /\ result = Returned(validate(mlp_V, mlp_W)))

\* C15: a train call with rounds >= 1 whose model setup succeeded ends by
\* returning, after exactly `rounds` rounds, the validation error of the
\* model as the last round left it
C15_ReturnsAfterRRounds ==
  (pc \in {"returned", "raised"} /\ rounds >= 1
     /\ result # Returned(SetupFailed)) =>
    /\ pc = "returned"
    /\ r = rounds
    /\ result = Returned(validate(mlp_V, mlp_W))

\* C16: selecting a node and incrementing its count are two steps: the step
\* of the dispatch loop that selects a node and starts the thread leaves
\* every count as it was, and a count rises only by 1, in a later step taken
\* by a started thread of that node; so a later selection can read the
\* counts before an earlier thread's increment
C16_SelectThenIncrement ==
  [][ /\ (pc = "dispatch" /\ i' = i + 1) =>
           /\ node_load' = node_load
           /\ threads'[i].pc = "start"
      /\ \A n \in DOMAIN node_load :
           node_load'[n] > node_load[n] =>
             /\ node_load'[n] = node_load[n] + 1
             /\ \E t \in Partitions : /\ threads[t].node = n
                                       /\ threads[t].pc = "start"
                                       /\ threads'[t].pc = "initialize"
    ]_vars

\* LEAST_LOADED on two registered nodes: both threads of the round were given
\* the same node, neither has incremented yet, and the other node is unused
C16_Witness ==
  /\ scheduling_policy = LEAST_LOADED
  /\ Cardinality(DOMAIN node_load) >= 2
  /\ pc = "dispatch"
  /\ \E t \in Partitions, u \in Partitions :
       /\ t < u
       /\ threads[t].pc = "start"
       /\ threads[u].pc = "start"
       /\ threads[t].node = threads[u].node
       /\ node_load[threads[t].node] = 0
  /\ stale

\* the locks a thread holds
Holds(th) == { l \in LockNames : locks[l] = th }

\* a dispatch task between sending a remote request and getting its answer
InRemoteCall(t) == threads[t].pc \in {"initialize", "train"}

\* C17: a dispatch task inside a remote call holds no lock, in particular
\* not the load lock; no thread holds two of the three locks at once; the
\* holder of a lock stands inside the one operation the lock protects, which
\* it can complete without waiting for anything; and a round in progress
\* always has a step to take, so the locks do not deadlock
C17_LocksShortAndSingle ==
  /\ \A t \in Partitions :
       /\ InRemoteCall(t) => Holds(Task(t)) = {}
       /\ Cardinality(Holds(Task(t))) <= 1
       /\ \A l \in Holds(Task(t)) : TaskWants(t) = l
  /\ Cardinality(Holds(Main)) <= 1
  /\ \A l \in Holds(Main) : MainWants = l
  /\ \A l \in LockNames :
       locks[l] \in {Free, Main} \cup { Task(t) : t \in Partitions }
  /\ \A t \in Partitions :
       (TaskWants(t) # "none" /\ locks[TaskWants(t)] = Free) =>
         ENABLED AcquireTask(t)
  /\ pc \in InRound => ENABLED LockStep

\* one task is inside its trainModel call while the other holds the load
\* lock for its counter operation
C17_Witness ==
  \E t \in Partitions, u \in Partitions :
    /\ threads[t].pc = "train"
    /\ threads[u].pc = "finally"
    /\ locks["load"] = Task(u)
    /\ locks["V"] = Free
    /\ locks["W"] = Free

\* C18: once a round has averaged, the divisor of both averaged gradients is
\* the length of the work queue, however many tasks merged (so the guard of
\* average is not reached while the queue is not empty); the numerators are
\* the sums of the merged gradients, and the weights after the update are
\* the snapshot plus that sum over the length of the work queue
C18_DivisorIsQueueLength ==
  /\ pc \in {"average_W", "update", "validate"} =>
       /\ avg_gradient_V.den = work_queue
       /\ avg_gradient_V.num = DeltaSum(MergedV, ShapeV, "V")
  /\ pc \in {"update", "validate"} =>
       /\ avg_gradient_W.den = work_queue
       /\ avg_gradient_W.num = DeltaSum(MergedW, ShapeW, "W")
  /\ pc = "validate" =>
       /\ WeightDen = work_queue
       /\ mlp_V = sum_matricies(V, DeltaSum(MergedV, ShapeV, "V"))
       /\ mlp_W = sum_matricies(W, DeltaSum(MergedW, ShapeW, "W"))

\* a round has been applied in which one of the two tasks merged and the
\* other did not: the single gradient was divided by 2
C18_Witness ==
  /\ pc = "validate"
  /\ work_queue = NumPartitions
  /\ Cardinality(MergedW) = 1
  /\ Cardinality(MergedV) = 1
  /\ avg_gradient_V.den = NumPartitions
  /\ mlp_V # V

\* C19: past the join barrier of a round, the tasks whose dV was added to
\* the V accumulator are the tasks whose dW was added to the W accumulator
C19_MergedTogether ==
  pc \in AfterBarrier => MergedV = MergedW

\* the dispatch tasks assigned to node n that have incremented its count and
\* not yet decremented it
InFlightOn(n) ==
  { t \in Partitions : threads[t].node = n /\ threads[t].pc \in InFlight }

\* C20: the tracked count of every node is the number of dispatch tasks of
\* that node between their increment and their decrement; so a task about
\* to decrement finds a count of at least 1, and no count exceeds the number
\* of partitions of a round
C20_CountIsInFlight ==
  /\ \A n \in DOMAIN node_load :
       /\ node_load[n] = Cardinality(InFlightOn(n))
       /\ node_load[n] <= work_queue
  /\ \A t \in Partitions :
       threads[t].pc = "finally" => node_load[threads[t].node] >= 1

\* every task of the round is in flight on one node, whose count is the
\* number of partitions, and one of them is about to decrement
C20_Witness ==
  \E n \in DOMAIN node_load :
    /\ node_load[n] = NumPartitions
    /\ InFlightOn(n) = Partitions
    /\ \E t \in Partitions : threads[t].pc = "finally"

====
